---- MODULE Spec2Model ----
(***************************************************************************)
(* Contact-extraction and reconciliation pipeline of scraper_python:       *)
(* utils/extractors.py, utils/theharvester_integration.py,                 *)
(* utils/storage.py and their callers app.py / main.py.                    *)
(*                                                                         *)
(* Encoding of Python values                                               *)
(*   str            a sequence of one-character strings                    *)
(*   None (as str)  the one-element sequence NoneStr                       *)
(*   dict           a TLA+ record/function; "k in d" is k \in DOMAIN d     *)
(*   list           a sequence; set a set                                  *)
(*   None (as dict) the record PyNone                                      *)
(***************************************************************************)
EXTENDS Integers, Sequences, FiniteSets, TLC

VARIABLES
    text,        \* extractors: the corpus handed to extract_phones
    phones,      \* extractors: result of extract_phones(text)
    candidates,  \* validator: the list handed to validate_emails / validate_phones
    validated,   \* validator: the list the validator returned
    revalidated, \* validator: what it returned for validated, handed to it again
    has_email_validator,  \* environment: TRUE iff email_validator can be imported
    has_phonenumbers,     \* environment: TRUE iff phonenumbers can be imported
    fs,          \* store: the file at each path
    dirs,        \* store: the directories that exist
    clock,       \* store: datetime.now()
    call,        \* store: the last Store call, its arguments and its result
    appenders,   \* store: the processes running append_to_json side by side
    settings,    \* callers: output file and auto-save (sidebar / --output)
    raw_data,    \* callers: what the scraper returned
    harvester_results,  \* callers: what run_theharvester returned
    contacts_temp,      \* callers: app.py:74, the result before the merge
    contacts,    \* callers: the ContactResult handed to the Store
    merge_input, \* history: contacts_temp as it was passed to combine_results
    calls,       \* history: the core functions invoked for the current record
    runs,        \* number of runs / calls the driver has started
    pc           \* position of the running caller / driver

extractVars  == <<text, phones>>
validateVars == <<candidates, validated, revalidated>>
libVars      == <<has_email_validator, has_phonenumbers>>
storeVars    == <<fs, dirs, clock, call>>
raceVars     == <<appenders>>
callerVars   == <<settings, raw_data, harvester_results, contacts_temp, contacts,
                  merge_input, calls, runs>>
vars == <<text, phones, candidates, validated, revalidated, has_email_validator, has_phonenumbers,
          fs, dirs, clock, call, appenders, settings, raw_data, harvester_results, contacts_temp,
          contacts, merge_input, calls, runs, pc>>

(***************************************************************************)
(* Strings                                                                 *)
(***************************************************************************)
NoneStr == <<"None">>

LowerLetters == <<"a","b","c","d","e","f","g","h","i","j","k","l","m",
                  "n","o","p","q","r","s","t","u","v","w","x","y","z">>
UpperLetters == <<"A","B","C","D","E","F","G","H","I","J","K","L","M",
                  "N","O","P","Q","R","S","T","U","V","W","X","Y","Z">>
Digits == {"0","1","2","3","4","5","6","7","8","9"}
Range(s) == {s[i] : i \in DOMAIN s}
Letters == Range(LowerLetters) \cup Range(UpperLetters)
\* \s of the re module (the ASCII whitespace that occurs in the corpus)
Whitespace == {" ", "\t", "\n"}
\* \w of the re module
WordChars == Letters \cup Digits \cup {"_"}

\* str.lower() on one character
LowerChar(c) ==
    IF \E i \in DOMAIN UpperLetters : UpperLetters[i] = c
    THEN LowerLetters[CHOOSE i \in DOMAIN UpperLetters : UpperLetters[i] = c]
    ELSE c
UpperChar(c) ==
    IF \E i \in DOMAIN LowerLetters : LowerLetters[i] = c
    THEN UpperLetters[CHOOSE i \in DOMAIN LowerLetters : LowerLetters[i] = c]
    ELSE c
Lower(s) == [i \in DOMAIN s |-> LowerChar(s[i])]

\* re.sub(r'[<cls>]', '', s): s without the characters of cls
RECURSIVE StripChars(_, _)
StripChars(s, cls) ==
    IF s = <<>> THEN <<>>
    ELSE IF Head(s) \in cls THEN StripChars(Tail(s), cls)
    ELSE <<Head(s)>> \o StripChars(Tail(s), cls)

RECURSIVE Concat(_)
Concat(ss) == IF ss = <<>> THEN <<>> ELSE Head(ss) \o Concat(Tail(ss))

(***************************************************************************)
(* Regular expressions: a pattern is a sequence of items, each a character *)
(* class with a greedy repetition {min,max} (inf: no upper limit),         *)
(* optionally anchored by \b on both sides and matched ignoring case.      *)
(* MatchItems is the backtracking matcher of re: it returns the position   *)
(* after the first match in priority order, or -1.                         *)
(***************************************************************************)
Rep(cls, lo, hi) == [cls |-> cls, min |-> lo, max |-> hi, inf |-> FALSE]
Plus(cls)        == [cls |-> cls, min |-> 1, max |-> 1, inf |-> TRUE]
Star(cls)        == [cls |-> cls, min |-> 0, max |-> 0, inf |-> TRUE]
AtLeast(cls, lo) == [cls |-> cls, min |-> lo, max |-> lo, inf |-> TRUE]
Lit(c)           == Rep({c}, 1, 1)
Opt(cls)         == Rep(cls, 0, 1)

InClass(c, cls, icase) ==
    \/ c \in cls
    \/ icase /\ (LowerChar(c) \in cls \/ UpperChar(c) \in cls)

\* \b at position pos (between txt[pos-1] and txt[pos])
IsWordBoundary(txt, pos) ==
    LET before == pos > 1 /\ pos - 1 <= Len(txt) /\ txt[pos - 1] \in WordChars
        after  == pos >= 1 /\ pos <= Len(txt) /\ txt[pos] \in WordChars
    IN before # after

\* number of consecutive characters of cls from pos, at most lim
RECURSIVE RunLength(_, _, _, _, _)
RunLength(txt, pos, cls, icase, lim) ==
    IF lim = 0 \/ pos > Len(txt) \/ ~InClass(txt[pos], cls, icase) THEN 0
    ELSE 1 + RunLength(txt, pos + 1, cls, icase, lim - 1)

RECURSIVE MatchItems(_, _, _, _)
RECURSIVE TryCount(_, _, _, _, _)
MatchItems(pat, k, txt, pos) ==
    IF k > Len(pat.items)
    THEN IF pat.wordb /\ ~IsWordBoundary(txt, pos) THEN -1 ELSE pos
    ELSE LET it  == pat.items[k]
             lim == IF it.inf THEN Len(txt) ELSE it.max
         IN TryCount(pat, k, txt, pos, RunLength(txt, pos, it.cls, pat.icase, lim))
TryCount(pat, k, txt, pos, n) ==
    IF n < pat.items[k].min THEN -1
    ELSE LET r == MatchItems(pat, k + 1, txt, pos + n)
         IN IF r # -1 THEN r ELSE TryCount(pat, k, txt, pos, n - 1)

MatchAt(pat, txt, pos) ==
    IF pat.wordb /\ ~IsWordBoundary(txt, pos) THEN -1
    ELSE MatchItems(pat, 1, txt, pos)

\* re.findall(pattern, text): the non-overlapping matches, leftmost first
RECURSIVE FindAllFrom(_, _, _)
FindAllFrom(pat, txt, pos) ==
    IF pos > Len(txt) THEN <<>>
    ELSE LET e == MatchAt(pat, txt, pos)
         IN IF e = -1 \/ e = pos
            THEN FindAllFrom(pat, txt, pos + 1)
            ELSE <<SubSeq(txt, pos, e - 1)>> \o FindAllFrom(pat, txt, e)
FindAll(pat, txt) == FindAllFrom(pat, txt, 1)

(***************************************************************************)
(* utils/extractors.py: phone extraction                                   *)
(***************************************************************************)
PhoneSep == Whitespace \cup {"-", "."}

PHONE_PATTERNS == <<
    \* \+\d{1,3}[\s\-\.]?\(?\d{1,4}\)?[\s\-\.]?\d{1,4}[\s\-\.]?\d{1,4}[\s\-\.]?\d{0,4}
    [wordb |-> FALSE, icase |-> FALSE, items |-> <<
        Lit("+"), Rep(Digits, 1, 3), Opt(PhoneSep), Opt({"("}), Rep(Digits, 1, 4),
        Opt({")"}), Opt(PhoneSep), Rep(Digits, 1, 4), Opt(PhoneSep),
        Rep(Digits, 1, 4), Opt(PhoneSep), Rep(Digits, 0, 4) >>],
    \* \(\d{3}\)\s*\d{3}[\s\-]?\d{4}
    [wordb |-> FALSE, icase |-> FALSE, items |-> <<
        Lit("("), Rep(Digits, 3, 3), Lit(")"), Star(Whitespace), Rep(Digits, 3, 3),
        Opt(Whitespace \cup {"-"}), Rep(Digits, 4, 4) >>],
    \* \d{3}[\s\-]\d{3}[\s\-]\d{4}
    [wordb |-> FALSE, icase |-> FALSE, items |-> <<
        Rep(Digits, 3, 3), Rep(Whitespace \cup {"-"}, 1, 1), Rep(Digits, 3, 3),
        Rep(Whitespace \cup {"-"}, 1, 1), Rep(Digits, 4, 4) >>],
    \* \d{10,15}
    [wordb |-> FALSE, icase |-> FALSE, items |-> << Rep(Digits, 10, 15) >>]
>>

\* the characters re.sub(r'[\s\-\(\)\.]', '', match) removes
PhoneFormatting == Whitespace \cup {"-", "(", ")", "."}

\* the minimum length check of extract_phones
MinPhoneLen == 10

\* a cleaning that forgets the parentheses
clean_phone_keeps_parens(match) == StripChars(match, Whitespace \cup {"-", "."})

clean_phone(match) == StripChars(match, PhoneFormatting)

\* all matches of all patterns, as (pattern, match) pairs
phone_matches(txt) ==
    UNION { {<<p, m>> : m \in Range(FindAll(PHONE_PATTERNS[p], txt))}
            : p \in DOMAIN PHONE_PATTERNS }

keep_phone(clean) == Len(clean) >= MinPhoneLen

\* the set extract_phones accumulates (returned as list(phones))
extract_phones(txt) ==
    { clean_phone(pm[2]) : pm \in {q \in phone_matches(txt) : keep_phone(clean_phone(q[2]))} }

(***************************************************************************)
(* utils/extractors.py: email extraction                                   *)
(***************************************************************************)
EmailLocalClass  == Letters \cup Digits \cup {".", "_", "%", "+", "-"}
EmailDomainClass == Letters \cup Digits \cup {".", "-"}
EmailTldClass    == Letters \cup {"|"}

EMAIL_PATTERNS == <<
    \* \b[A-Za-z0-9._%+-]+@[A-Za-z0-9.-]+\.[A-Z|a-z]{2,}\b
    [wordb |-> TRUE, icase |-> TRUE, items |-> <<
        Plus(EmailLocalClass), Lit("@"), Plus(EmailDomainClass), Lit("."),
        AtLeast(EmailTldClass, 2) >>],
    \* \b[A-Za-z0-9._%+-]+\[at\][A-Za-z0-9.-]+\.[A-Z|a-z]{2,}\b
    [wordb |-> TRUE, icase |-> TRUE, items |-> <<
        Plus(EmailLocalClass), Lit("["), Lit("a"), Lit("t"), Lit("]"),
        Plus(EmailDomainClass), Lit("."), AtLeast(EmailTldClass, 2) >>],
    \* \b[A-Za-z0-9._%+-]+\(at\)[A-Za-z0-9.-]+\.[A-Z|a-z]{2,}\b
    [wordb |-> TRUE, icase |-> TRUE, items |-> <<
        Plus(EmailLocalClass), Lit("("), Lit("a"), Lit("t"), Lit(")"),
        Plus(EmailDomainClass), Lit("."), AtLeast(EmailTldClass, 2) >>]
>>

IsPrefixAt(s, pos, old) ==
    /\ pos + Len(old) - 1 <= Len(s)
    /\ SubSeq(s, pos, pos + Len(old) - 1) = old

\* str.replace(old, new), old non-empty
RECURSIVE ReplaceFrom(_, _, _, _)
ReplaceFrom(s, pos, old, new) ==
    IF pos > Len(s) THEN <<>>
    ELSE IF IsPrefixAt(s, pos, old)
         THEN new \o ReplaceFrom(s, pos + Len(old), old, new)
         ELSE <<s[pos]>> \o ReplaceFrom(s, pos + 1, old, new)
Replace(s, old, new) == ReplaceFrom(s, 1, old, new)

clean_email(match) ==
    Replace(Replace(match, <<"[","a","t","]">>, <<"@">>), <<"(","a","t",")">>, <<"@">>)

email_matches(txt) ==
    UNION { {<<p, m>> : m \in Range(FindAll(EMAIL_PATTERNS[p], txt))}
            : p \in DOMAIN EMAIL_PATTERNS }

\* the set extract_emails accumulates (returned as list(emails))
extract_emails(txt) == { Lower(clean_email(pm[2])) : pm \in email_matches(txt) }

(***************************************************************************)
(* utils/extractors.py: validation                                         *)
(***************************************************************************)
IndexOf(s, c) == CHOOSE i \in DOMAIN s : s[i] = c /\ \A j \in 1..(i - 1) : s[j] # c
CountOf(s, c) == Cardinality({i \in DOMAIN s : s[i] = c})

\* email.split('@', 1) of an email containing '@'
SplitAtFirst(email) ==
    LET i == IndexOf(email, "@")
    IN [local |-> SubSeq(email, 1, i - 1), domain |-> SubSeq(email, i + 1, Len(email))]

basic_email_check(email) ==
    IF email = <<>> \/ "@" \notin Range(email) THEN FALSE
    ELSE LET parts == SplitAtFirst(email)
         IN IF parts.local = <<>> \/ parts.domain = <<>> \/ "." \notin Range(parts.domain)
            THEN FALSE
            ELSE Len(parts.local) > 0 /\ Len(parts.domain) > 2

\* the least and greatest digit counts basic_phone_check accepts
BasicPhoneMin == 10
BasicPhoneMax == 15

basic_phone_check(phone) ==
    IF phone = <<>> THEN FALSE
    ELSE LET digits == StripChars(phone, {c \in Range(phone) : c \notin Digits})
         IN BasicPhoneMin <= Len(digits) /\ Len(digits) <= BasicPhoneMax

\* email_validator.validate_email(email, check_deliverability=False): the
\* syntax rules of the library on the addresses of this model; the result is
\* the normalized address (domain lower-cased) or Invalid (EmailNotValidError)
Invalid == <<"EmailNotValidError">>
RECURSIVE SplitOn(_, _)
SplitOn(s, c) ==
    IF c \notin Range(s) THEN <<s>>
    ELSE LET i == IndexOf(s, c)
         IN <<SubSeq(s, 1, i - 1)>> \o SplitOn(SubSeq(s, i + 1, Len(s)), c)
validate_email(email) ==
    IF CountOf(email, "@") # 1 THEN Invalid
    ELSE LET parts  == SplitAtFirst(email)
             atoms  == SplitOn(parts.local, ".")
             labels == SplitOn(parts.domain, ".")
         IN IF /\ \A i \in DOMAIN atoms :
                     atoms[i] # <<>> /\ Range(atoms[i]) \subseteq EmailLocalClass \ {"."}
               /\ Len(labels) >= 2
               /\ \A i \in DOMAIN labels :
                     /\ labels[i] # <<>>
                     /\ Range(labels[i]) \subseteq (Letters \cup Digits \cup {"-"})
                     /\ Head(labels[i]) # "-"
                     /\ labels[i][Len(labels[i])] # "-"
               /\ Range(labels[Len(labels)]) \cap Letters # {}
            THEN parts.local \o <<"@">> \o Lower(parts.domain)
            ELSE Invalid

\* phonenumbers.parse(phone, None), is_valid_number and format_number(...,
\* INTERNATIONAL) on the numbers of this model: a number parses only with a
\* leading '+' (no default region), is valid for the country codes below with
\* a ten-digit national number, and is rendered '+1 NNN-NNN-NNNN' in the
\* North American plan and '+44 NN NNNN NNNN' otherwise.
NoPhone == <<"NumberParseException">>
CountryCodes == { <<"1">>, <<"4","4">> }
format_international(phone) ==
    LET digits == StripChars(phone, {c \in Range(phone) : c \notin Digits})
        ccs == {cc \in CountryCodes :
                  /\ IsPrefixAt(digits, 1, cc)
                  /\ Len(digits) - Len(cc) = 10
                  /\ digits[Len(cc) + 1] \notin {"0", "1"}}
    IN IF phone = <<>> \/ Head(StripChars(phone, Whitespace)) # "+" \/ ccs = {}
       THEN NoPhone
       ELSE LET cc == CHOOSE c \in ccs : TRUE
                n  == SubSeq(digits, Len(cc) + 1, Len(digits))
            IN IF cc = <<"1">>
               THEN <<"+">> \o cc \o <<" ">> \o SubSeq(n, 1, 3) \o <<"-">>
                    \o SubSeq(n, 4, 6) \o <<"-">> \o SubSeq(n, 7, 10)
               ELSE <<"+">> \o cc \o <<" ">> \o SubSeq(n, 1, 2) \o <<" ">>
                    \o SubSeq(n, 3, 6) \o <<" ">> \o SubSeq(n, 7, 10)

RECURSIVE MapValid(_, _, _)
MapValid(list, F(_), bad) ==
    IF list = <<>> THEN <<>>
    ELSE LET v == F(Head(list))
         IN (IF v = bad THEN <<>> ELSE <<v>>) \o MapValid(Tail(list), F, bad)

\* validate_emails(emails); lib: the import of email_validator succeeds
validate_emails(emails, lib) ==
    IF lib THEN MapValid(emails, validate_email, Invalid)
    ELSE SelectSeq(emails, basic_email_check)

\* a validator that renders a valid number without its '+' and country code
validate_phones_national(phone_list, lib) ==
    IF lib
    THEN MapValid(phone_list,
                  LAMBDA p : IF format_international(p) = NoPhone THEN NoPhone
                             ELSE Tail(SelectSeq(format_international(p),
                                                 LAMBDA c : c \in Digits)),
                  NoPhone)
    ELSE SelectSeq(phone_list, basic_phone_check)

\* validate_phones(phones); lib: the import of phonenumbers succeeds
validate_phones(phone_list, lib) ==
    IF lib THEN MapValid(phone_list, format_international, NoPhone)
    ELSE SelectSeq(phone_list, basic_phone_check)

(***************************************************************************)
(* Python values shared by the operations below                            *)
(***************************************************************************)
PyNone == [kind |-> "none"]
\* {}
EmptyRecord == [k \in {} |-> k]
Return(v) == [raised |-> FALSE, value |-> v]
Raise(e)  == [raised |-> TRUE, exc |-> e]

\* dict.get(k) for a key holding a str (None when the key is missing)
Get(d, k) == IF k \in DOMAIN d THEN d[k] ELSE NoneStr
\* truth value of a str or None
Truthy(v) == v # NoneStr /\ v # <<>>
\* d with the items of upd set (dict assignment)
Update(d, upd) ==
    [k \in DOMAIN d \cup DOMAIN upd |-> IF k \in DOMAIN upd THEN upd[k] ELSE d[k]]
\* list(a_set): the elements in some order
Orderings(S) ==
    {o \in [1..Cardinality(S) -> S] : \A i, j \in 1..Cardinality(S) : o[i] = o[j] => i = j}

RECURSIVE Join(_)
\* ' '.join(parts)
Join(parts) ==
    IF parts = <<>> THEN <<>>
    ELSE IF Len(parts) = 1 THEN Head(parts)
    ELSE Head(parts) \o <<" ">> \o Join(Tail(parts))

(***************************************************************************)
(* utils/extractors.py: extract_text_content and extract_contacts          *)
(***************************************************************************)
\* the keys of an experience / education entry, in insertion order
\* (scrapers/linkedin_scraper.py)
ExperienceKeys == <<"title", "company", "dates">>
EducationKeys  == <<"school", "degree", "dates">>

\* [v for e in entries for v in e.values()]
RECURSIVE EntryValues(_, _)
EntryValues(entries, keys) ==
    IF entries = <<>> THEN <<>>
    ELSE [i \in DOMAIN keys |-> Head(entries)[keys[i]]] \o EntryValues(Tail(entries), keys)

ListOf(d, k) == IF k \in DOMAIN d THEN d[k] ELSE <<>>

text_parts(record) ==
    LET field(k) == IF Truthy(Get(record, k)) THEN <<record[k]>> ELSE <<>>
    IN field("name") \o field("title") \o field("company") \o field("location")
       \o field("about")
       \o EntryValues(ListOf(record, "experience"), ExperienceKeys)
       \o EntryValues(ListOf(record, "education"), EducationKeys)
       \o field("raw_html")

\* a join that renders every part, present or not
extract_text_content_unfiltered(record) ==
    IF record = PyNone THEN Raise("AttributeError")
    ELSE Return(Join(text_parts(record)))

extract_text_content(record) ==
    IF record = PyNone THEN Raise("AttributeError")
    ELSE Return(Join(SelectSeq(text_parts(record), Truthy)))

\* the result dict of extract_contacts for a normal record, given the two
\* candidate lists in the order list(set) produced them
contact_result(record, emails, phone_list, email_lib, phone_lib) ==
    LET validated_emails == validate_emails(emails, email_lib)
        validated_phones == validate_phones(phone_list, phone_lib)
    IN [emails |-> validated_emails,
        phones |-> validated_phones,
        metadata |-> [
            source_url |-> Get(record, "url"),
            name |-> Get(record, "name"),
            title |-> Get(record, "title"),
            company |-> Get(record, "company"),
            location |-> Get(record, "location"),
            extraction_timestamp |-> Get(record, "timestamp"),
            total_emails_found |-> Len(emails),
            total_phones_found |-> Len(phone_list),
            validated_emails |-> Len(validated_emails),
            validated_phones |-> Len(validated_phones)]]

NoData == <<"No data">>

\* the outcomes of extract_contacts(record): one per order of the candidates
extract_contacts(record, email_lib, phone_lib) ==
    IF record = PyNone THEN {Raise("AttributeError")}
    ELSE IF DOMAIN record = {} \/ "error" \in DOMAIN record
    THEN {Return([emails |-> <<>>, phones |-> <<>>,
                  metadata |-> [error |-> IF "error" \in DOMAIN record
                                          THEN record.error ELSE NoData]])}
    ELSE LET txt == extract_text_content(record).value
         IN {Return(contact_result(record, el, pl, email_lib, phone_lib)) :
                el \in Orderings(extract_emails(txt)),
                pl \in Orderings(extract_phones(txt))}

(***************************************************************************)
(* utils/theharvester_integration.py                                       *)
(***************************************************************************)
Unknown == <<"unknown">>
TheHarvester == <<"theHarvester">>

\* the outcomes of process_theharvester_results(data, domain): one per order
\* of list(set(data['emails']))
process_theharvester_results(data, domain) ==
    {[domain |-> domain,
      emails |-> el,
      hosts |-> <<>>,
      ips |-> <<>>,
      metadata |-> [tool |-> TheHarvester, domain |-> domain,
                    timestamp |-> IF "time" \in DOMAIN data THEN data.time ELSE Unknown]] :
        el \in Orderings(Range(ListOf(data, "emails")))}

\* urlparse(url).netloc: what follows '//' up to the next '/'
netloc(url) ==
    LET starts == {i \in DOMAIN url : IsPrefixAt(url, i, <<"/", "/">>)}
    IN IF starts = {} THEN <<>>
       ELSE LET from == 2 + CHOOSE i \in starts : \A j \in starts : i <= j
                ends == {i \in from..Len(url) : url[i] = "/"}
                to   == IF ends = {} THEN Len(url)
                        ELSE (CHOOSE i \in ends : \A j \in ends : i <= j) - 1
            IN SubSeq(url, from, to)

extract_domain_from_url(url) ==
    LET domain == netloc(url)
    IN IF IsPrefixAt(domain, 1, <<"w", "w", "w", ".">>)
       THEN SubSeq(domain, 5, Len(domain))
       ELSE domain

\* a merge that adds every harvester email, found already or not
new_emails_unfiltered(harvester_emails, existing_emails) == harvester_emails

\* [email for email in harvester_emails if email not in existing_emails]
new_emails(harvester_emails, existing_emails) ==
    SelectSeq(harvester_emails, LAMBDA email : email \notin existing_emails)

\* an annotation that drops what the metadata held before
annotate_fresh(metadata, harvested, added) ==
    [theharvester_used |-> TRUE,
     theharvester_domain |-> Get(harvested, "domain"),
     additional_emails_from_harvester |-> added]

annotate(metadata, harvested, added) ==
    Update(metadata,
           [theharvester_used |-> TRUE,
            theharvester_domain |-> Get(harvested, "domain"),
            additional_emails_from_harvester |-> added])

\* combine_results(scraper_results, harvester_results): the outcome, and what
\* the call leaves in the caller's scraper_results (copy() is shallow: the
\* emails list and the metadata dict are shared with the copy)
combine_results(scraper_results, harvested) ==
    LET harvester_emails == ListOf(harvested, "emails")
        existing_emails  == Range(ListOf(scraper_results, "emails"))
        added            == new_emails(harvester_emails, existing_emails)
    IN IF "emails" \notin DOMAIN scraper_results
       THEN [out |-> Raise("KeyError"), arg |-> scraper_results]
       ELSE LET emails == scraper_results.emails \o added
                had_md == "metadata" \in DOMAIN scraper_results
                md == annotate(IF had_md THEN scraper_results.metadata ELSE <<>>,
                               harvested, Len(added))
            IN [out |-> Return(Update(scraper_results, [emails |-> emails, metadata |-> md])),
                arg |-> IF had_md
                        THEN Update(scraper_results, [emails |-> emails, metadata |-> md])
                        ELSE Update(scraper_results, [emails |-> emails])]

(***************************************************************************)
(* utils/storage.py                                                        *)
(* A Python value handed to or read from the Store is tagged with its      *)
(* type: Dict(d), List(l), Scalar(n) or PyNone.  A file is Absent or holds *)
(* a text: the serialization of a value, or text json.load rejects.        *)
(***************************************************************************)
Dict(d)   == [kind |-> "dict", doc |-> d]
List(l)   == [kind |-> "list", doc |-> l]
Scalar(n) == [kind |-> "scalar", doc |-> n]

Absent    == [kind |-> "absent"]
NoCall    == [op |-> "none"]
Malformed == [kind |-> "malformed"]
EmptyFile == [kind |-> "empty"]

\* bool(value)
IsTruthy(v) ==
    CASE v.kind = "none"   -> FALSE
      [] v.kind = "dict"   -> DOMAIN v.doc # {}
      [] v.kind = "list"   -> v.doc # <<>>
      [] v.kind = "scalar" -> v.doc # 0

\* json.dump(data, f, indent=2, ensure_ascii=False): the text written
json_dump(data) == [kind |-> "json", value |-> data]
\* json.load(f)
json_load(content) ==
    IF content.kind = "json" THEN Return(content.value) ELSE Raise("JSONDecodeError")

\* os.path.dirname(filepath)
dirname(filepath) ==
    IF "/" \notin Range(filepath) THEN <<>>
    ELSE LET i == CHOOSE k \in DOMAIN filepath :
                    filepath[k] = "/" /\ \A j \in (k + 1)..Len(filepath) : filepath[j] # "/"
         IN IF i = 1 THEN <<"/">> ELSE SubSeq(filepath, 1, i - 1)

\* datetime.now().isoformat() at clock value n
Iso(n) == <<"T", ToString(n)>>

\* storage.py:28-29: add the timestamp if not present
stamp_if_missing(data, now) ==
    IF /\ data.kind = "dict"
       /\ "metadata" \in DOMAIN data.doc
       /\ "extraction_timestamp" \notin DOMAIN data.doc.metadata
    THEN Dict(Update(data.doc,
            [metadata |-> Update(data.doc.metadata, [extraction_timestamp |-> now])]))
    ELSE data

\* a code point the utf-8 codec rejects: a lone surrogate, which a str holds
\* for an undecodable byte of the command line
Surrogate == "\\udcff"

\* storage.py:32-33: json.dump writes the document piece by piece to the file
\* opened with encoding='utf-8', and the write of a str holding a surrogate
\* raises UnicodeEncodeError (the strs looked at are the source_url of a
\* result and of each result of a container)
unencodable(result) ==
    /\ result.kind = "dict"
    /\ "source_url" \in DOMAIN result.doc
    /\ Surrogate \in Range(result.doc.source_url)
json_dump_raises(data) ==
    \/ unencodable(data)
    \/ /\ data.kind = "dict"
       /\ "results" \in DOMAIN data.doc
       /\ \E i \in DOMAIN data.doc.results : unencodable(data.doc.results[i])

\* save_to_json(data, filepath) in the state st = [fs, dirs, clock]: the value
\* returned, the state left, and data as the call leaves it (stamped in place)
save_to_json(data, filepath, st) ==
    IF dirname(filepath) = <<>>
    THEN \* os.makedirs('') raises FileNotFoundError, caught at line 38
         [ret |-> FALSE, fs |-> st.fs, dirs |-> st.dirs, clock |-> st.clock, data |-> data]
    ELSE IF data.kind \in {"none", "scalar"}
    THEN \* 'metadata' in data raises TypeError after the directory was made
         [ret |-> FALSE, fs |-> st.fs, dirs |-> st.dirs \cup {dirname(filepath)},
          clock |-> st.clock, data |-> data]
    ELSE LET stamped == stamp_if_missing(data, Iso(st.clock))
             ticks   == IF stamped = data THEN 0 ELSE 1
         IN IF json_dump_raises(stamped)
            THEN \* open(filepath, 'w') emptied the file, the pieces before the
                 \* str are flushed when the with block is left, and the
                 \* exception is caught at line 38
                 [ret   |-> FALSE,
                  fs    |-> [st.fs EXCEPT ![filepath] = Malformed],
                  dirs  |-> st.dirs \cup {dirname(filepath)},
                  clock |-> st.clock + ticks,
                  data  |-> stamped]
            ELSE [ret   |-> TRUE,
                  fs    |-> [st.fs EXCEPT ![filepath] = json_dump(stamped)],
                  dirs  |-> st.dirs \cup {dirname(filepath)},
                  clock |-> st.clock + ticks,
                  data  |-> stamped]

\* a load that starts an empty document where there is none to read
load_or_empty(filepath, files) ==
    IF files[filepath].kind = "json" THEN files[filepath].value ELSE Dict(<<>>)

\* load_from_json(filepath)
load_from_json(filepath, files) ==
    IF files[filepath] = Absent THEN PyNone
    ELSE LET r == json_load(files[filepath])
         IN IF r.raised THEN PyNone ELSE r.value

\* an append that starts a fresh container whatever the file holds
existing_forgotten(loaded) == Dict([results |-> <<>>])

\* storage.py:78-85: the container the new result is appended to
existing_container(loaded) ==
    LET existing_data == IF IsTruthy(loaded) THEN loaded ELSE Dict([results |-> <<>>])
        as_dict == IF existing_data.kind # "dict"
                   THEN Dict([results |-> <<existing_data>>])
                   ELSE existing_data
    IN IF "results" \notin DOMAIN as_dict.doc
       THEN Dict([results |-> <<as_dict>>])
       ELSE as_dict

\* storage.py:88-90: new_data with saved_timestamp set in its metadata
with_saved_timestamp(new_data, now) ==
    Update(new_data,
           [metadata |-> Update(IF "metadata" \in DOMAIN new_data
                                THEN new_data.metadata ELSE <<>>,
                                [saved_timestamp |-> now])])

\* append_to_json(new_data, filepath) in the state st; new_data is a dict
append_to_json(new_data, filepath, st) ==
    LET existing_data == existing_container(load_from_json(filepath, st.fs))
        stamped == with_saved_timestamp(new_data, Iso(st.clock))
        grown == Dict(Update(existing_data.doc,
                    [results |-> Append(existing_data.doc.results, Dict(stamped))]))
        saved == save_to_json(grown, filepath, [st EXCEPT !.clock = st.clock + 1])
    IN [saved EXCEPT !.data = Dict(stamped)]

\* storage.py:78-93: the container append_to_json hands to save_to_json, given
\* what load_from_json returned and the time of line 90
appended(new_data, loaded, now) ==
    LET existing_data == existing_container(loaded)
    IN Dict(Update(existing_data.doc,
            [results |-> Append(existing_data.doc.results,
                                Dict(with_saved_timestamp(new_data, now)))]))

\* get_file_info(filepath): None, or the summary of the stored document
\* (size_bytes and modified_time, the values of os.stat, are left out)
get_file_info(filepath, files) ==
    LET data == load_from_json(filepath, files)
    IN IF files[filepath] = Absent \/ ~IsTruthy(data) THEN PyNone
       ELSE IF data.kind # "dict"
       THEN \* 'results' in data or latest_result.get raises, caught at line 195
            PyNone
       ELSE LET wrapped == "results" \in DOMAIN data.doc
                result_count == IF wrapped THEN Len(data.doc.results) ELSE 1
                latest_result == IF ~wrapped THEN data
                                 ELSE IF data.doc.results # <<>>
                                 THEN data.doc.results[Len(data.doc.results)]
                                 ELSE Dict(<<>>)
            IN IF latest_result.kind # "dict" THEN PyNone
               ELSE Dict([filepath |-> filepath,
                          result_count |-> result_count,
                          latest_emails |-> Len(ListOf(latest_result.doc, "emails")),
                          latest_phones |-> Len(ListOf(latest_result.doc, "phones")),
                          latest_source |->
                              Get(IF "metadata" \in DOMAIN latest_result.doc
                                  THEN latest_result.doc.metadata ELSE <<>>,
                                  "source_url")])

(***************************************************************************)
(* Inputs: what the scraper and the harvester hand to the core             *)
(***************************************************************************)
Url1 == <<"h","t","t","p","s",":","/","/","w","w","w",".","l",".","i","n","/","a","l">>
Url2 == <<"l",".","i","n","/","a","l">>
Urls == {Url1, Url2}
Boom == <<"boom">>

\* scrapers/linkedin_scraper.py:86
ErrorRecord(url) == [error |-> Boom, url |-> url]

\* scrapers/linkedin_scraper.py:69-79
ProfileContacts(url) ==
    [url |-> url, name |-> <<"A","l">>, title |-> NoneStr, company |-> NoneStr,
     location |-> NoneStr,
     about |-> <<"a","@","b",".","c","o"," ","+","1"," ","2","1","2"," ","5","5","5"," ","0","1","0","0">>,
     experience |-> <<>>, education |-> <<>>,
     raw_html |-> <<"A","@","b",".","c","o"," ","x","[","a","t","]","y",".","d","e"," ","+","1","2","3","4","5","6","7","8","9">>]

ProfileNested(url) ==
    [url |-> url, name |-> NoneStr, title |-> NoneStr, company |-> NoneStr,
     location |-> NoneStr, about |-> NoneStr,
     experience |-> << [title |-> <<"c","t","o">>, company |-> NoneStr, dates |-> <<"c","@","d",".","c","o">>] >>,
     education |-> << [school |-> NoneStr, degree |-> <<"a",".",".","b","@","c",".","d","e">>, dates |-> NoneStr] >>,
     raw_html |-> <<>>]

ProfileBlank(url) ==
    [url |-> url, name |-> NoneStr, title |-> NoneStr, company |-> NoneStr,
     location |-> NoneStr, about |-> NoneStr, experience |-> <<>>, education |-> <<>>,
     raw_html |-> <<>>]

\* what scrape_linkedin_profile(url) can return
ScrapeOutcomes(url) ==
    {ErrorRecord(url), ProfileContacts(url), ProfileNested(url), ProfileBlank(url)}

DataPath == <<"d","/","r",".","j","s","o","n">>
BarePath == <<"r",".","j","s","o","n">>
Paths == {DataPath, BarePath}

EmailAB    == <<"a","@","b",".","c","o">>
EmailABcap == <<"A","@","b",".","c","o">>
EmailCD    == <<"c","@","d",".","c","o">>
HarvesterEmailPool == {EmailAB, EmailABcap, EmailCD}

(***************************************************************************)
(* Each specification below drives one part of the program; the variables  *)
(* of the other parts rest at these values.                                *)
(***************************************************************************)
ExtractIdle  == text = <<>> /\ phones = {}
ValidateIdle == candidates = <<>> /\ validated = <<>> /\ revalidated = <<>>
LibIdle      == has_email_validator = FALSE /\ has_phonenumbers = FALSE
StoreIdle    == fs = <<>> /\ dirs = {} /\ clock = 0 /\ call = NoCall /\ appenders = <<>>
CallerIdle   ==
    /\ settings = <<>> /\ raw_data = <<>> /\ harvester_results = <<>>
    /\ contacts_temp = <<>> /\ contacts = <<>> /\ merge_input = <<>>
    /\ calls = {} /\ runs = 0

(***************************************************************************)
(* The callers: app.py main (one click of the button) and main.py main     *)
(***************************************************************************)
MaxRuns == 1
MaxHarvest == 2

RECURSIVE ListsUpTo(_, _)
ListsUpTo(pool, n) ==
    IF n = 0 THEN {<<>>}
    ELSE LET shorter == ListsUpTo(pool, n - 1)
         IN shorter \cup {Append(l, e) : l \in shorter, e \in pool}

HarvesterFailed == <<"theHarvester not found. Please install it.">>
Unreadable == <<"Expecting value">>

\* the JSON theHarvester wrote, or the stand-in of line 65 when it cannot be read
HarvesterData ==
    {[emails |-> l] : l \in ListsUpTo(HarvesterEmailPool, MaxHarvest)}
        \cup {[error |-> Unreadable]}

\* what run_theharvester(domain) can return
run_theharvester(domain) ==
    {[error |-> HarvesterFailed, domain |-> domain]}
        \cup UNION {process_theharvester_results(data, domain) : data \in HarvesterData}

\* the core functions extract_contacts(record) invokes
CallsOfExtract(record) ==
    IF DOMAIN record = {} \/ "error" \in DOMAIN record
    THEN {"extract_contacts"}
    ELSE {"extract_contacts", "extract_text_content", "extract_emails",
          "validate_emails", "extract_phones", "validate_phones"}

\* the values extract_contacts can return to the caller
Extracted(record) ==
    {o.value : o \in {x \in extract_contacts(record, has_email_validator, has_phonenumbers) :
                        ~x.raised}}

StoreState == [fs |-> fs, dirs |-> dirs, clock |-> clock]

Init ==
    /\ pc = "idle"
    /\ settings \in [output_file : Paths, auto_save : BOOLEAN]
    /\ has_email_validator \in BOOLEAN
    /\ has_phonenumbers \in BOOLEAN
    /\ fs = [p \in Paths |-> Absent]
    /\ dirs = {}
    /\ clock = 0
    /\ call = NoCall
    /\ appenders = <<>>
    /\ raw_data = <<>> /\ harvester_results = <<>>
    /\ contacts_temp = <<>> /\ contacts = <<>> /\ merge_input = <<>>
    /\ calls = {} /\ runs = 0
    /\ ExtractIdle /\ ValidateIdle

Scrape(next) ==
    /\ pc = "idle"
    /\ runs < MaxRuns
    /\ \E url \in Urls : raw_data' \in ScrapeOutcomes(url)
    /\ runs' = runs + 1
    /\ calls' = {}
    /\ harvester_results' = <<>> /\ contacts_temp' = <<>> /\ contacts' = <<>>
    /\ merge_input' = <<>>
    /\ pc' = next
    /\ UNCHANGED <<settings, extractVars, validateVars, libVars, raceVars, storeVars>>

\* app.py:63
AppScrape == Scrape("app_scraped")

\* app.py:69-71
AppHarvest ==
    /\ pc = "app_scraped"
    /\ Truthy(extract_domain_from_url(raw_data.url))
    /\ harvester_results' \in run_theharvester(extract_domain_from_url(raw_data.url))
    /\ pc' = "app_harvested"
    /\ UNCHANGED <<settings, raw_data, contacts_temp, contacts, merge_input, calls, runs,
                   extractVars, validateVars, libVars, raceVars, storeVars>>

\* app.py:74
AppExtractForMerge ==
    /\ pc = "app_harvested"
    /\ "error" \notin DOMAIN harvester_results
    /\ contacts_temp' \in Extracted(raw_data)
    /\ calls' = calls \cup CallsOfExtract(raw_data)
    /\ pc' = "app_temp"
    /\ UNCHANGED <<settings, raw_data, harvester_results, contacts, merge_input, runs,
                   extractVars, validateVars, libVars, raceVars, storeVars>>

\* app.py:75
AppCombine ==
    /\ pc = "app_temp"
    /\ LET c == combine_results(contacts_temp, harvester_results)
       IN /\ ~c.out.raised
          /\ contacts' = c.out.value
          /\ contacts_temp' = c.arg
    /\ merge_input' = contacts_temp
    /\ calls' = calls \cup {"combine_results"}
    /\ pc' = "app_done"
    /\ UNCHANGED <<settings, raw_data, harvester_results, runs,
                   extractVars, validateVars, libVars, raceVars, storeVars>>

\* app.py:77 (the harvester failed) and app.py:79 (the URL has no domain)
AppExtractOnly ==
    /\ \/ pc = "app_harvested" /\ "error" \in DOMAIN harvester_results
       \/ pc = "app_scraped" /\ ~Truthy(extract_domain_from_url(raw_data.url))
    /\ contacts' \in Extracted(raw_data)
    /\ calls' = calls \cup CallsOfExtract(raw_data)
    /\ pc' = "app_done"
    /\ UNCHANGED <<settings, raw_data, harvester_results, contacts_temp, merge_input, runs,
                   extractVars, validateVars, libVars, raceVars, storeVars>>

\* save_to_json(contacts, output_file) as the callers issue it
CallerSave ==
    LET saved == save_to_json(Dict(contacts), settings.output_file, StoreState)
    IN /\ fs' = saved.fs
       /\ dirs' = saved.dirs
       /\ clock' = saved.clock
       /\ contacts' = saved.data.doc
       /\ call' = [op |-> "save_to_json", filepath |-> settings.output_file,
                   data |-> Dict(contacts), before |-> fs[settings.output_file],
                   ret |-> saved.ret, after |-> saved.data]

\* app.py:91-92
AppSave ==
    /\ pc = "app_done"
    /\ IF settings.auto_save THEN CallerSave
       ELSE UNCHANGED <<contacts, storeVars>>
    /\ pc' = "idle"
    /\ UNCHANGED <<settings, raw_data, harvester_results, contacts_temp, merge_input,
                   calls, runs, extractVars, validateVars, libVars, raceVars>>

\* main.py:70
CliScrape == Scrape("cli_scraped")

\* main.py:77
CliExtract ==
    /\ pc = "cli_scraped"
    /\ contacts' \in Extracted(raw_data)
    /\ calls' = calls \cup CallsOfExtract(raw_data)
    /\ pc' = "cli_extracted"
    /\ UNCHANGED <<settings, raw_data, harvester_results, contacts_temp, merge_input, runs,
                   extractVars, validateVars, libVars, raceVars, storeVars>>

\* main.py:78
CliSave ==
    /\ pc = "cli_extracted"
    /\ CallerSave
    /\ pc' = "idle"
    /\ UNCHANGED <<settings, raw_data, harvester_results, contacts_temp, merge_input,
                   calls, runs, extractVars, validateVars, libVars, raceVars>>

Next ==
    \/ AppScrape \/ AppHarvest \/ AppExtractForMerge \/ AppCombine \/ AppExtractOnly
    \/ AppSave \/ CliScrape \/ CliExtract \/ CliSave

Spec == Init /\ [][Next]_vars

(***************************************************************************)
(* C1, C4                                                                  *)
(***************************************************************************)
\* contacts is the argument of the save_to_json call that comes next
HandedToStore == pc \in {"app_done", "cli_extracted"}

\* a counter of the metadata, a missing one read as 0
Counter(metadata, k) == IF k \in DOMAIN metadata THEN metadata[k] ELSE 0

\* C1: every ContactResult handed to the Store has validated_emails =
\* len(emails), validated_phones = len(phones) and total_*_found >= validated_*
\* (for the result of an error record, which has no counters, read as 0).
C1_CountsMatch ==
    HandedToStore =>
        LET md == contacts.metadata
        IN /\ Counter(md, "validated_emails") = Len(contacts.emails)
           /\ Counter(md, "validated_phones") = Len(contacts.phones)
           /\ Counter(md, "total_emails_found") >= Counter(md, "validated_emails")
           /\ Counter(md, "total_phones_found") >= Counter(md, "validated_phones")

\* C4: for an error-marked record the callers invoke neither the Validator
\* nor the Reconciler, and the result handed on has no emails, no phones and
\* the upstream error string in its metadata, until it is saved.
C4_ErrorShortCircuit ==
    "error" \in DOMAIN raw_data =>
        /\ calls \cap {"validate_emails", "validate_phones", "combine_results"} = {}
        /\ DOMAIN contacts # {} =>
              /\ contacts.emails = <<>>
              /\ contacts.phones = <<>>
              /\ "error" \in DOMAIN contacts.metadata
              /\ contacts.metadata.error = raw_data.error

(***************************************************************************)
(* The Reconciler applied to every result the Extractor can produce, and   *)
(* again to its own result                                                 *)
(***************************************************************************)
MaxMerges == 2

\* a ContactResult that has no metadata
BareResult == [emails |-> <<EmailAB>>, phones |-> <<>>]

HarvestDomains == { <<"l", ".", "i", "n">>, <<"d", ".", "c", "o">> }

InitMerge ==
    /\ pc = "merge_ready"
    /\ has_email_validator \in BOOLEAN
    /\ has_phonenumbers \in BOOLEAN
    /\ contacts \in UNION {Extracted(r) : r \in ScrapeOutcomes(Url1)} \cup {BareResult}
    /\ merge_input = <<>> /\ harvester_results = <<>>
    /\ settings = <<>> /\ raw_data = <<>> /\ contacts_temp = <<>>
    /\ calls = {} /\ runs = 0
    /\ ExtractIdle /\ ValidateIdle /\ StoreIdle

CombineResults ==
    /\ pc \in {"merge_ready", "merged"}
    /\ runs < MaxMerges
    /\ \E domain \in HarvestDomains : harvester_results' \in run_theharvester(domain)
    /\ LET c == combine_results(contacts, harvester_results')
       IN ~c.out.raised /\ contacts' = c.out.value
    /\ merge_input' = contacts
    /\ runs' = runs + 1
    /\ pc' = "merged"
    /\ UNCHANGED <<settings, raw_data, contacts_temp, calls,
                   extractVars, validateVars, libVars, raceVars, storeVars>>

NextMerge == CombineResults

SpecMerge == InitMerge /\ [][NextMerge]_vars

(***************************************************************************)
(* C6, C7                                                                  *)
(***************************************************************************)
NoDuplicates(list) == \A i, j \in DOMAIN list : list[i] = list[j] => i = j
PositionIn(list, e) == CHOOSE i \in DOMAIN list : list[i] = e

\* C6: the merged emails are the existing list followed by exactly the
\* harvester emails whose exact string is not in it, each once and in the
\* harvester's order; no string occurs twice if none did before; and
\* additional_emails_from_harvester is the number of emails added.
C6_MergeEmails ==
    pc = "merged" =>
        LET before == merge_input.emails
            after  == contacts.emails
            harvested == ListOf(harvester_results, "emails")
            added  == SubSeq(after, Len(before) + 1, Len(after))
        IN /\ Len(after) >= Len(before)
           /\ SubSeq(after, 1, Len(before)) = before
           /\ Range(added) = Range(harvested) \ Range(before)
           /\ NoDuplicates(added)
           /\ \A i, j \in DOMAIN added :
                 i < j => PositionIn(harvested, added[i]) < PositionIn(harvested, added[j])
           /\ NoDuplicates(before) => NoDuplicates(after)
           /\ contacts.metadata.additional_emails_from_harvester = Len(after) - Len(before)

\* ['a@b.co'] merged with ['a@b.co', 'c@d.co'] gives ['a@b.co', 'c@d.co'], 1 added
C6_Witness ==
    /\ pc = "merged"
    /\ merge_input.emails = <<EmailAB>>
    /\ ListOf(harvester_results, "emails") = <<EmailAB, EmailCD>>
    /\ contacts.emails = <<EmailAB, EmailCD>>
    /\ contacts.metadata.additional_emails_from_harvester = 1

AnnotationKeys ==
    {"theharvester_used", "theharvester_domain", "additional_emails_from_harvester"}
MetadataOf(result) == IF "metadata" \in DOMAIN result THEN result.metadata ELSE <<>>

\* C7 as stated: phones are unchanged and every metadata key that existed
\* before the merge keeps its value, also on a second merge.
C7_EveryKeyKept ==
    pc = "merged" =>
        /\ contacts.phones = merge_input.phones
        /\ \A k \in DOMAIN MetadataOf(merge_input) :
              /\ k \in DOMAIN contacts.metadata
              /\ contacts.metadata[k] = merge_input.metadata[k]

\* C7 amended: the merge changes nothing but emails and metadata; emails is
\* only extended; every metadata key other than the three annotation keys
\* keeps its value, none is removed, and the three annotation keys are set to
\* the values of this merge (overwriting those of an earlier merge).
C7_OnlyAnnotationsChange ==
    pc = "merged" =>
        /\ contacts.phones = merge_input.phones
        /\ DOMAIN contacts = DOMAIN merge_input \cup {"metadata"}
        /\ SubSeq(contacts.emails, 1, Len(merge_input.emails)) = merge_input.emails
        /\ DOMAIN contacts.metadata = DOMAIN MetadataOf(merge_input) \cup AnnotationKeys
        /\ \A k \in DOMAIN MetadataOf(merge_input) \ AnnotationKeys :
              contacts.metadata[k] = merge_input.metadata[k]
        /\ contacts.metadata.theharvester_used = TRUE
        /\ contacts.metadata.theharvester_domain = Get(harvester_results, "domain")
        /\ contacts.metadata.additional_emails_from_harvester
              = Len(contacts.emails) - Len(merge_input.emails)

\* a second merge of an extracted result that rewrites the count of the first
C7_Witness ==
    /\ pc = "merged"
    /\ runs = 2
    /\ "source_url" \in DOMAIN contacts.metadata
    /\ merge_input.metadata.additional_emails_from_harvester = 2
    /\ contacts.metadata.additional_emails_from_harvester = 1
    /\ contacts.metadata.validated_emails = merge_input.metadata.validated_emails

(***************************************************************************)
(* The Store under one writer: any sequence of calls on the files          *)
(***************************************************************************)
MaxClock == 2

\* the ContactResults handed to the Store
StoreResults ==
    {o.value : o \in UNION {extract_contacts(r, FALSE, FALSE) : r \in ScrapeOutcomes(Url1)}}
        \cup {BareResult}

\* a single ContactResult document left by an earlier save
StoredBare == json_dump(Dict(BareResult))

\* a container left by an earlier append
StoredWrapped == json_dump(Dict([results |-> <<Dict(BareResult)>>]))
\* documents other tools left: {}, a list of results, a number
StoredEmptyObject == json_dump(Dict(EmptyRecord))
StoredList == json_dump(List(<<Dict(BareResult)>>))
StoredScalar == json_dump(Scalar(7))

\* what the file at the data path can hold before the first call
StoredFiles ==
    {Absent, StoredBare, StoredWrapped, StoredEmptyObject, StoredList, StoredScalar,
     Malformed, EmptyFile}

InitStore ==
    /\ pc = "store"
    /\ LibIdle
    /\ fs \in {f \in [Paths -> StoredFiles] : f[BarePath] \in {Absent, StoredBare}}
    /\ dirs = {dirname(p) : p \in {q \in Paths : fs[q] # Absent /\ dirname(q) # <<>>}}
    /\ clock = 0
    /\ call = NoCall
    /\ appenders = <<>>
    /\ CallerIdle /\ ExtractIdle /\ ValidateIdle

StoreCall(op, filepath, data, done) ==
    /\ fs' = done.fs
    /\ dirs' = done.dirs
    /\ clock' = done.clock
    /\ call' = [op |-> op, filepath |-> filepath, data |-> data, before |-> fs[filepath],
                ret |-> done.ret, after |-> done.data, raised |-> FALSE]

SaveToJson ==
    /\ pc = "store" /\ clock < MaxClock
    /\ \E filepath \in Paths, r \in StoreResults :
          StoreCall("save_to_json", filepath, Dict(r),
                    save_to_json(Dict(r), filepath, StoreState))
    /\ UNCHANGED <<pc, callerVars, extractVars, validateVars, libVars, raceVars>>

AppendToJson ==
    /\ pc = "store" /\ clock < MaxClock
    /\ \E filepath \in Paths, r \in StoreResults :
          StoreCall("append_to_json", filepath, Dict(r),
                    append_to_json(r, filepath, StoreState))
    /\ UNCHANGED <<pc, callerVars, extractVars, validateVars, libVars, raceVars>>

LoadFromJson ==
    /\ pc = "store"
    /\ \E filepath \in Paths :
          call' = [op |-> "load_from_json", filepath |-> filepath, data |-> PyNone,
                   before |-> fs[filepath], ret |-> load_from_json(filepath, fs),
                   after |-> PyNone, raised |-> FALSE]
    /\ UNCHANGED <<fs, dirs, clock, pc, callerVars, extractVars, validateVars, libVars, raceVars>>

GetFileInfo ==
    /\ pc = "store"
    /\ \E filepath \in Paths :
          call' = [op |-> "get_file_info", filepath |-> filepath, data |-> PyNone,
                   before |-> fs[filepath], ret |-> get_file_info(filepath, fs),
                   after |-> PyNone, raised |-> FALSE]
    /\ UNCHANGED <<fs, dirs, clock, pc, callerVars, extractVars, validateVars, libVars, raceVars>>

NextStore == SaveToJson \/ AppendToJson \/ LoadFromJson \/ GetFileInfo

SpecStore == InitStore /\ [][NextStore]_vars

(***************************************************************************)
(* C2, C3, C8                                                              *)
(***************************************************************************)
IsWrapped(content) ==
    /\ content.kind = "json"
    /\ content.value.kind = "dict"
    /\ "results" \in DOMAIN content.value.doc
IsBareResult(content) ==
    /\ content.kind = "json"
    /\ content.value.kind = "dict"
    /\ "results" \notin DOMAIN content.value.doc
IsPrefix(a, b) == Len(a) <= Len(b) /\ SubSeq(b, 1, Len(a)) = a

\* C2: once the file at a path holds a wrapped document, every later
\* save_to_json or append_to_json on that path keeps every result the document
\* held: the file stays wrapped and its earlier results are still there.
C2_WrappedNeverOverwritten ==
    [][\A p \in Paths :
          IsWrapped(fs[p]) =>
              /\ IsWrapped(fs'[p])
              /\ IsPrefix(fs[p].value.doc.results, fs'[p].value.doc.results)]_vars

\* new_data as append_to_json is specified to store it: saved_timestamp added
\* to its metadata, nothing else changed
IsSavedCopy(stored, new_data) ==
    /\ stored.kind = "dict"
    /\ DOMAIN stored.doc = DOMAIN new_data.doc \cup {"metadata"}
    /\ \A k \in DOMAIN new_data.doc \ {"metadata"} : stored.doc[k] = new_data.doc[k]
    /\ DOMAIN stored.doc.metadata = DOMAIN MetadataOf(new_data.doc) \cup {"saved_timestamp"}
    /\ \A k \in DOMAIN MetadataOf(new_data.doc) \ {"saved_timestamp"} :
          stored.doc.metadata[k] = new_data.doc.metadata[k]

\* C3: append_to_json(new, path) on a bare single-result document old leaves
\* {results: [old, new]}, on a nonexistent path {results: [new]}; new carries
\* a saved_timestamp and the call returns True.
C3_AppendWraps ==
    (call.op = "append_to_json" /\ (call.before = Absent \/ IsBareResult(call.before))) =>
        /\ call.ret = TRUE
        /\ IsWrapped(fs[call.filepath])
        /\ LET results == fs[call.filepath].value.doc.results
               kept == IF call.before = Absent THEN <<>> ELSE <<call.before.value>>
           IN /\ Len(results) = Len(kept) + 1
              /\ IsPrefix(kept, results)
              /\ IsSavedCopy(results[Len(results)], call.data)

\* C8: load_from_json(path) right after save_to_json(result, path) returns
\* result with nothing changed but an extraction_timestamp added, for every
\* path, a bare file name included.
C8_RoundTrip ==
    call.op = "save_to_json" =>
        LET loaded == load_from_json(call.filepath, fs)
            result == call.data.doc
        IN /\ loaded.kind = "dict"
           /\ DOMAIN loaded.doc = DOMAIN result
           /\ \A k \in DOMAIN result \ {"metadata"} : loaded.doc[k] = result[k]
           /\ "metadata" \in DOMAIN result =>
                 /\ DOMAIN loaded.doc.metadata
                       = DOMAIN result.metadata \cup {"extraction_timestamp"}
                 /\ \A k \in DOMAIN result.metadata \ {"extraction_timestamp"} :
                       loaded.doc.metadata[k] = result.metadata[k]

(***************************************************************************)
(* C13                                                                     *)
(***************************************************************************)
\* C13: load_from_json returns None, without raising, when the file is absent
\* or cannot be decoded, returns the decoded document unchanged otherwise,
\* and leaves the file as it was.
C13_LoadOrNone ==
    call.op = "load_from_json" =>
        /\ ~call.raised
        /\ call.before.kind # "json" => call.ret = PyNone
        /\ call.before.kind = "json" => call.ret = call.before.value
        /\ fs[call.filepath] = call.before

\* a load of a file whose content json.load rejects
C13_Witness ==
    /\ call.op = "load_from_json"
    /\ call.before = Malformed
    /\ call.ret = PyNone
    /\ fs[call.filepath] = Malformed

(***************************************************************************)
(* C14                                                                     *)
(***************************************************************************)
IsTime(v) == \E n \in 0..MaxClock : v = Iso(n)

\* C14: after a successful save_to_json of a ContactResult the stored
\* metadata.extraction_timestamp is a time value: the time of the save when
\* the result had none (a result of extract_contacts for a record without a
\* timestamp included), the result's own when it had one.
C14_TimestampStored ==
    (call.op = "save_to_json" /\ call.ret = TRUE /\ "metadata" \in DOMAIN call.data.doc) =>
        LET given  == call.data.doc.metadata
            stored == fs[call.filepath].value.doc.metadata
        IN /\ "extraction_timestamp" \in DOMAIN stored
           /\ IsTime(stored.extraction_timestamp)
           /\ ("extraction_timestamp" \in DOMAIN given /\ IsTime(given.extraction_timestamp))
                 => stored.extraction_timestamp = given.extraction_timestamp

(***************************************************************************)
(* C15                                                                     *)
(***************************************************************************)
\* C15: get_file_info returns None if the file is absent, empty (no content,
\* or an empty document) or unreadable; otherwise result_count is the length
\* of results if the document has a results key and 1 if not, and
\* latest_emails, latest_phones and latest_source describe the last element
\* of results, or the document itself if it has no results key.
C15_Summary ==
    call.op = "get_file_info" =>
        IF call.before.kind # "json" \/ ~IsTruthy(call.before.value)
        THEN call.ret = PyNone
        ELSE LET document == call.before.value
                 wrapped == document.kind = "dict" /\ "results" \in DOMAIN document.doc
                 latest == IF wrapped
                           THEN document.doc.results[Len(document.doc.results)]
                           ELSE document
             IN /\ call.ret.kind = "dict"
                /\ call.ret.doc.result_count
                      = (IF wrapped THEN Len(document.doc.results) ELSE 1)
                /\ latest.kind = "dict" =>
                      /\ call.ret.doc.latest_emails = Len(ListOf(latest.doc, "emails"))
                      /\ call.ret.doc.latest_phones = Len(ListOf(latest.doc, "phones"))
                      /\ call.ret.doc.latest_source
                            = Get(MetadataOf(latest.doc), "source_url")

(***************************************************************************)
(* C20                                                                     *)
(***************************************************************************)
\* the results a file holds: those of a container, one for any other
\* document, none if there is no document
StoredResults(content) ==
    IF content.kind # "json" THEN <<>>
    ELSE IF IsWrapped(content) THEN content.value.doc.results
    ELSE <<content.value>>

\* C20: with one writer, after every successful append_to_json the file is a
\* container whose results are the results stored before (a document that is
\* no container counting as one result), in their order, followed by the new
\* result: for an absent file, a container, a bare result, an empty object, a
\* list, a scalar and malformed content.
C20_GrowsByOne ==
    (call.op = "append_to_json" /\ call.ret = TRUE) =>
        /\ IsWrapped(fs[call.filepath])
        /\ LET results == fs[call.filepath].value.doc.results
               earlier == StoredResults(call.before)
           IN /\ Len(results) = Len(earlier) + 1
              /\ IsPrefix(earlier, results)
              /\ results[Len(results)] = call.after

(***************************************************************************)
(* The Store handed results whose source_url is the URL of the command     *)
(* line (main.py:70-78): a URL given with an undecodable byte reaches      *)
(* save_to_json as a str holding a surrogate.                              *)
(***************************************************************************)
SurrogateUrl == <<"l", ".", "i", "n", "/", Surrogate>>
SurrogateResult == [source_url |-> SurrogateUrl, emails |-> <<EmailAB>>, phones |-> <<>>]
ArgvResults == {BareResult, SurrogateResult}

SaveArgvResult ==
    /\ pc = "store" /\ clock < MaxClock
    /\ \E filepath \in Paths, r \in ArgvResults :
          StoreCall("save_to_json", filepath, Dict(r),
                    save_to_json(Dict(r), filepath, StoreState))
    /\ UNCHANGED <<pc, callerVars, extractVars, validateVars, libVars, raceVars>>

AppendArgvResult ==
    /\ pc = "store" /\ clock < MaxClock
    /\ \E filepath \in Paths, r \in ArgvResults :
          StoreCall("append_to_json", filepath, Dict(r),
                    append_to_json(r, filepath, StoreState))
    /\ UNCHANGED <<pc, callerVars, extractVars, validateVars, libVars, raceVars>>

NextArgv == SaveArgvResult \/ AppendArgvResult \/ LoadFromJson \/ GetFileInfo

SpecArgv == InitStore /\ [][NextArgv]_vars

\* C21: when save_to_json or append_to_json returns False, the file at the
\* path holds exactly what it held before the call (and is absent if it was
\* absent): a write that fails after the file was opened destroys nothing.
C21_FailureKeepsFile ==
    (call.op \in {"save_to_json", "append_to_json"} /\ call.ret = FALSE) =>
        fs[call.filepath] = call.before

(***************************************************************************)
(* Processes that run append_to_json on the data path side by side, with   *)
(* no lock.  A call is a load (one whole-file read), then save_to_json:    *)
(* open(filepath, 'w') truncates the file, json.dump fills the buffer, and *)
(* the buffer reaches the file when it fills up and when the file is       *)
(* closed.  A process can be killed between any two steps.  Each writer    *)
(* writes at its own offset, so what a writer leaves depends on what the   *)
(* others did to the file while it had it open:                            *)
(*   "none"  nothing is under its write;                                   *)
(*   "under" another writer's bytes are: its document replaces them, or a  *)
(*           tail of them stays behind it and the file does not decode;    *)
(*   "hole"  the file was truncated below its offset: does not decode.     *)
(***************************************************************************)
NumAppenders == 2
Appenders == 1..NumAppenders

\* the new result process p appends
NewResult(p) ==
    [emails |-> <<EmailCD>>, phones |-> <<>>, metadata |-> [source_url |-> <<ToString(p)>>]]

Waiting == [pc |-> "start", seen |-> Absent, doc |-> PyNone, flushed |-> FALSE,
            overlap |-> "none", ret |-> FALSE]

InitRace ==
    /\ pc = "race"
    /\ LibIdle
    /\ fs \in {f \in [Paths -> {Absent, StoredBare, StoredWrapped}] : f[BarePath] = Absent}
    /\ dirs = {dirname(p) : p \in {q \in Paths : fs[q] # Absent /\ dirname(q) # <<>>}}
    /\ clock = 0
    /\ call = [op |-> "append_to_json", filepath |-> DataPath, before |-> fs[DataPath]]
    /\ appenders = [p \in Appenders |-> Waiting]
    /\ CallerIdle /\ ExtractIdle /\ ValidateIdle

\* storage.py:78-93: load, coerce, stamp, append (all but the load is local)
RaceLoad(p) ==
    /\ appenders[p].pc = "start"
    /\ appenders' = [appenders EXCEPT ![p] =
          [@ EXCEPT !.pc = "loaded",
                    !.seen = fs[DataPath],
                    !.doc = appended(NewResult(p), load_from_json(DataPath, fs), Iso(clock))]]
    /\ clock' = clock + 1
    /\ UNCHANGED <<fs, dirs, call>>
    /\ UNCHANGED <<pc, callerVars, extractVars, validateVars, libVars>>

\* what a truncation or a write by p does to the other writers that have the
\* file open
Disturbed(p, truncated) ==
    [q \in Appenders |->
        IF q = p \/ appenders[q].pc # "opened" THEN appenders[q]
        ELSE IF truncated
        THEN [appenders[q] EXCEPT !.overlap = IF appenders[q].flushed THEN "hole" ELSE "none"]
        ELSE [appenders[q] EXCEPT !.overlap = IF @ = "hole" THEN "hole" ELSE "under"]]

\* storage.py:25-32: makedirs and open(filepath, 'w')
RaceOpen(p) ==
    /\ appenders[p].pc = "loaded"
    /\ dirs' = dirs \cup {dirname(DataPath)}
    /\ fs' = [fs EXCEPT ![DataPath] = EmptyFile]
    /\ appenders' = [Disturbed(p, TRUE) EXCEPT ![p] =
          [@ EXCEPT !.pc = "opened", !.flushed = FALSE, !.overlap = "none",
                    !.doc = stamp_if_missing(appenders[p].doc, Iso(clock))]]
    /\ UNCHANGED <<clock, call>>
    /\ UNCHANGED <<pc, callerVars, extractVars, validateVars, libVars>>

\* storage.py:33: json.dump fills the buffer and a first part reaches the file
RaceFlush(p) ==
    /\ appenders[p].pc = "opened"
    /\ ~appenders[p].flushed
    /\ fs' = [fs EXCEPT ![DataPath] = Malformed]
    /\ appenders' = [Disturbed(p, FALSE) EXCEPT ![p] = [@ EXCEPT !.flushed = TRUE]]
    /\ UNCHANGED <<dirs, clock, call>>
    /\ UNCHANGED <<pc, callerVars, extractVars, validateVars, libVars>>

\* storage.py:32-36: leaving the with block writes the rest; return True
RaceClose(p) ==
    /\ appenders[p].pc = "opened"
    /\ \E left \in
          (CASE appenders[p].overlap = "none"  -> {json_dump(appenders[p].doc)}
             [] appenders[p].overlap = "under" -> {json_dump(appenders[p].doc), Malformed}
             [] appenders[p].overlap = "hole"  -> {Malformed}) :
          fs' = [fs EXCEPT ![DataPath] = left]
    /\ appenders' = [Disturbed(p, FALSE) EXCEPT ![p] = [@ EXCEPT !.pc = "done", !.ret = TRUE]]
    /\ UNCHANGED <<dirs, clock, call>>
    /\ UNCHANGED <<pc, callerVars, extractVars, validateVars, libVars>>

\* the process is killed after its load and before its save has completed
RaceCrash(p) ==
    /\ appenders[p].pc \in {"loaded", "opened"}
    /\ appenders' = [appenders EXCEPT ![p] = [@ EXCEPT !.pc = "crashed"]]
    /\ UNCHANGED <<fs, dirs, clock, call>>
    /\ UNCHANGED <<pc, callerVars, extractVars, validateVars, libVars>>

NextRace ==
    \E p \in Appenders :
        RaceLoad(p) \/ RaceOpen(p) \/ RaceFlush(p) \/ RaceClose(p) \/ RaceCrash(p)

SpecRace == InitRace /\ [][NextRace]_vars

(***************************************************************************)
(* C17, C18, C19                                                           *)
(***************************************************************************)
AllDone == \A p \in Appenders : appenders[p].pc = "done"
\* every process read the file before any process opened it for writing
AllLoadedFirst == \A p \in Appenders : appenders[p].seen = call.before

\* C17: when the appenders all load before any of them saves, every call
\* returns True and the last whole-file write wins: the file ends as the
\* document of one of them (or as an overlay of the writes that does not
\* decode), so it holds the earlier results and only one of the new results.
C17_LastWriteWins ==
    (AllDone /\ AllLoadedFirst) =>
        /\ \A p \in Appenders : appenders[p].ret = TRUE
        /\ \/ fs[DataPath] = Malformed
           \/ \E p \in Appenders : fs[DataPath] = json_dump(appenders[p].doc)
        /\ fs[DataPath] # Malformed =>
              /\ IsPrefix(StoredResults(call.before), StoredResults(fs[DataPath]))
              /\ Len(StoredResults(fs[DataPath])) = Len(StoredResults(call.before)) + 1

\* both calls returned True and the result of process 1 is not in the file
C17_Witness ==
    /\ AllDone /\ AllLoadedFirst
    /\ \A p \in Appenders : appenders[p].ret = TRUE
    /\ call.before = StoredWrapped
    /\ fs[DataPath] = json_dump(appenders[2].doc)
    /\ Len(fs[DataPath].value.doc.results) = 2
    /\ fs[DataPath].value.doc.results[1] = Dict(BareResult)
    /\ fs[DataPath].value.doc.results[2].doc.metadata.source_url = <<"2">>

\* C18: if an appender is killed after its load and before its save has
\* completed (no other process touching the file), the file still holds
\* every result it held before the append began.
C18_CrashKeepsHistory ==
    \A p \in Appenders :
        (/\ appenders[p].pc = "crashed"
         /\ \A q \in Appenders \ {p} : appenders[q].pc = "start") =>
            IsPrefix(StoredResults(call.before), StoredResults(fs[DataPath]))

\* C19: after any interleaving of the concurrent append_to_json calls, every
\* result the file held before the calls started is in the final document.
C19_HistorySurvivesRace ==
    AllDone => IsPrefix(StoredResults(call.before), StoredResults(fs[DataPath]))

(***************************************************************************)
(* Every core operation on the inputs its callers can hand it              *)
(***************************************************************************)
CoreRecords == {PyNone, EmptyRecord} \cup ScrapeOutcomes(Url1)

\* a ContactResult that has no emails list
NoEmailsResult == [phones |-> <<>>, metadata |-> [source_url |-> Url1]]

CoreTexts ==
    {o.value : o \in {x \in {extract_text_content(r) : r \in CoreRecords} : ~x.raised}}
CoreEmailLists == UNION {Orderings(extract_emails(t)) : t \in CoreTexts}
CorePhoneLists == UNION {Orderings(extract_phones(t)) : t \in CoreTexts}

\* one call of a function that touches no file, made first
PureCall(op, arg, outcome) ==
    /\ pc = "store" /\ call = NoCall
    /\ call' = [op |-> op, data |-> arg, raised |-> outcome.raised,
                ret |-> IF outcome.raised THEN outcome.exc ELSE outcome.value]
    /\ UNCHANGED <<fs, dirs, clock, pc, callerVars, extractVars, validateVars, libVars, raceVars>>

ExtractContacts ==
    \E record \in CoreRecords, email_lib, phone_lib \in BOOLEAN :
        \E outcome \in extract_contacts(record, email_lib, phone_lib) :
            PureCall("extract_contacts", record, outcome)

ExtractTextContent ==
    \E record \in CoreRecords :
        PureCall("extract_text_content", record, extract_text_content(record))

ExtractEmailsOp ==
    \E t \in CoreTexts : PureCall("extract_emails", t, Return(extract_emails(t)))

ExtractPhonesOp ==
    \E t \in CoreTexts : PureCall("extract_phones", t, Return(extract_phones(t)))

ValidateEmailsOp ==
    \E l \in CoreEmailLists, lib \in BOOLEAN :
        PureCall("validate_emails", l, Return(validate_emails(l, lib)))

ValidatePhonesOp ==
    \E l \in CorePhoneLists, lib \in BOOLEAN :
        PureCall("validate_phones", l, Return(validate_phones(l, lib)))

CombineResultsOp ==
    \E result \in StoreResults \cup {NoEmailsResult} :
        \E harvested \in run_theharvester(<<"l", ".", "i", "n">>) :
            PureCall("combine_results", result, combine_results(result, harvested).out)

NextCore ==
    \/ ExtractContacts \/ ExtractTextContent \/ ExtractEmailsOp \/ ExtractPhonesOp
    \/ ValidateEmailsOp \/ ValidatePhonesOp \/ CombineResultsOp
    \/ SaveToJson \/ AppendToJson \/ LoadFromJson \/ GetFileInfo

SpecCore == InitStore /\ [][NextCore]_vars

(***************************************************************************)
(* C5                                                                      *)
(***************************************************************************)
\* C5: no core operation lets an exception reach its caller: whatever the
\* input, the call made last returned a value.
C5_NothingRaises == call.op # "none" => ~call.raised

(***************************************************************************)
(* Inputs of the phone extraction check: corpora built from fragments      *)
(***************************************************************************)
MaxPhoneFrags == 3

PhoneFrags == <<
    <<"(","2","1","2",")"," ","5","5","5","-","0","1","0","0">>,
    <<"2","1","2","-","5","5","5","-","0","1","0","0">>,
    <<"+","1"," ","2","1","2"," ","5","5","5"," ","0","1","0","0">>,
    <<"+","1","2","3","4","5","6","7","8","9">>,
    <<"1","2","1","2","5","5","5","0","1","0","0">>,
    <<"5","5","5","-","0","1","0","0">>,
    <<"+","4","4",".","2","0",".","7","9","4","6",".","0","9","5","8">>,
    <<" ">>,
    <<"x">>,
    <<"2","1","2">>
>>

RECURSIVE FragSeqs(_)
FragSeqs(n) ==
    IF n = 0 THEN {<<>>}
    ELSE LET shorter == FragSeqs(n - 1)
         IN shorter \cup {Append(s, i) : s \in shorter, i \in DOMAIN PhoneFrags}

PhoneTexts == {Concat([i \in DOMAIN s |-> PhoneFrags[s[i]]]) : s \in FragSeqs(MaxPhoneFrags)}

InitPhones ==
    /\ text \in PhoneTexts
    /\ phones = {}
    /\ pc = "start"
    /\ ValidateIdle /\ LibIdle /\ StoreIdle /\ CallerIdle

ExtractPhones ==
    /\ pc = "start"
    /\ phones' = extract_phones(text)
    /\ pc' = "extracted"
    /\ UNCHANGED <<text, validateVars, libVars, raceVars, storeVars, callerVars>>

NextPhones == ExtractPhones

SpecPhones == InitPhones /\ [][NextPhones]_vars

(***************************************************************************)
(* Inputs of the email extraction check: corpora built from fragments      *)
(***************************************************************************)
MaxEmailFrags == 3

EmailFrags == <<
    <<"a",".","b","[","a","t","]","x",".","c","o">>,
    <<"a",".","b","(","a","t",")","x",".","c","o">>,
    <<"A",".","b","@","X",".","c","o">>,
    <<"a",".","b","[","A","T","]","x",".","c","o">>,
    <<"c","@","d",".","c","o">>,
    <<" ">>,
    <<"x">>
>>

RECURSIVE EmailFragSeqs(_)
EmailFragSeqs(n) ==
    IF n = 0 THEN {<<>>}
    ELSE LET shorter == EmailFragSeqs(n - 1)
         IN shorter \cup {Append(s, i) : s \in shorter, i \in DOMAIN EmailFrags}

EmailTexts ==
    {Concat([i \in DOMAIN s |-> EmailFrags[s[i]]]) : s \in EmailFragSeqs(MaxEmailFrags)}

InitEmails ==
    /\ text \in EmailTexts
    /\ phones = {}
    /\ candidates = <<>> /\ validated = <<>> /\ revalidated = <<>>
    /\ pc = "start"
    /\ LibIdle /\ StoreIdle /\ CallerIdle

\* emails = extract_emails(text): list(emails) in some order
ExtractEmails ==
    /\ pc = "start"
    /\ candidates' \in Orderings(extract_emails(text))
    /\ pc' = "emails_extracted"
    /\ UNCHANGED <<validated, revalidated, extractVars, libVars, raceVars, storeVars, callerVars>>

NextEmails == ExtractEmails

SpecEmails == InitEmails /\ [][NextEmails]_vars

(***************************************************************************)
(* C11                                                                     *)
(***************************************************************************)
Contains(s, sub) == \E i \in DOMAIN s : IsPrefixAt(s, i, sub)

\* C11: every email candidate contains an '@', no obfuscation token '[at]' or
\* '(at)' and no upper-case letter, and the two obfuscated variants of one
\* address give exactly one candidate.
C11_Normalized ==
    pc = "emails_extracted" =>
        /\ \A i \in DOMAIN candidates :
              /\ "@" \in Range(candidates[i])
              /\ ~Contains(candidates[i], <<"[","a","t","]">>)
              /\ ~Contains(candidates[i], <<"(","a","t",")">>)
              /\ Range(candidates[i]) \cap Range(UpperLetters) = {}
        /\ text = EmailFrags[1] \o <<" ">> \o EmailFrags[2] =>
              candidates = << <<"a",".","b","@","x",".","c","o">> >>

(***************************************************************************)
(* Inputs of the validation check: every string over a small alphabet,     *)
(* one candidate per call, and the example list of the documentation       *)
(***************************************************************************)
MaxEmailLen == 5
EmailAlphabet == {"a", "@", "."}

RECURSIVE StringsUpTo(_, _)
StringsUpTo(alphabet, n) ==
    IF n = 0 THEN {<<>>}
    ELSE LET shorter == StringsUpTo(alphabet, n - 1)
         IN shorter \cup {Append(s, c) : s \in shorter, c \in alphabet}

ExampleEmails == <<
    <<"a","@","b",".","c","o">>,
    <<"n","o","t","-","a","n","-","e","m","a","i","l">>,
    <<"x","@","y">> >>

EmailCandidateLists ==
    {<<e>> : e \in StringsUpTo(EmailAlphabet, MaxEmailLen)} \cup {ExampleEmails}

InitValidate ==
    /\ candidates \in EmailCandidateLists
    /\ has_email_validator \in BOOLEAN
    /\ has_phonenumbers = FALSE
    /\ validated = <<>> /\ revalidated = <<>>
    /\ pc = "start"
    /\ ExtractIdle /\ StoreIdle /\ CallerIdle

ValidateEmails ==
    /\ pc = "start"
    /\ validated' = validate_emails(candidates, has_email_validator)
    /\ pc' = "validated"
    /\ UNCHANGED <<candidates, revalidated, libVars, raceVars, extractVars, storeVars, callerVars>>

NextValidate == ValidateEmails

SpecValidate == InitValidate /\ [][NextValidate]_vars

(***************************************************************************)
(* Inputs of the text check: records with each field present, empty, None  *)
(* or missing                                                              *)
(***************************************************************************)
MaxEntries == 2

ExperiencePool == {
    [title |-> <<"c","t","o">>, company |-> NoneStr, dates |-> <<"2","0">>],
    [title |-> <<>>, company |-> <<"x"," ","y">>, dates |-> NoneStr] }
EducationPool == {
    [school |-> NoneStr, degree |-> <<"b","s","c">>, dates |-> <<>>] }

FullRecords ==
    [url : {Url1},
     name : {NoneStr, <<>>, <<"A","l">>},
     title : {NoneStr, <<"d","e","v">>},
     company : {<<>>, <<"c","o">>},
     location : {NoneStr, <<"n","y">>},
     about : {NoneStr, <<>>, <<"a","@","b",".","c","o">>},
     experience : ListsUpTo(ExperiencePool, MaxEntries),
     education : ListsUpTo(EducationPool, MaxEntries),
     raw_html : {<<>>, <<"<","p",">">>}]

\* record with the keys in gone removed
Without(record, gone) == [k \in DOMAIN record \ gone |-> record[k]]

TextRecords ==
    {Without(r, gone) : r \in FullRecords,
                        gone \in {{}, {"name", "about"}, {"experience", "education"}}}

InitText ==
    /\ pc = "start"
    /\ raw_data \in TextRecords
    /\ text = <<>> /\ phones = {}
    /\ settings = <<>> /\ harvester_results = <<>>
    /\ contacts_temp = <<>> /\ contacts = <<>> /\ merge_input = <<>>
    /\ calls = {} /\ runs = 0
    /\ ValidateIdle /\ LibIdle /\ StoreIdle

\* text_content = extract_text_content(raw_data)
ExtractText ==
    /\ pc = "start"
    /\ text' = extract_text_content(raw_data).value
    /\ pc' = "text_extracted"
    /\ UNCHANGED <<phones, raw_data, settings, harvester_results, contacts_temp, contacts,
                   merge_input, calls, runs, validateVars, libVars, raceVars, storeVars>>

NextText == ExtractText

SpecText == InitText /\ [][NextText]_vars

(***************************************************************************)
(* C16                                                                     *)
(***************************************************************************)
\* the values of a record in the order of the claim, a missing one as None
RECURSIVE ValuesOfEntries(_, _)
ValuesOfEntries(entries, keys) ==
    IF entries = <<>> THEN <<>>
    ELSE <<Head(entries)[keys[1]], Head(entries)[keys[2]], Head(entries)[keys[3]]>>
         \o ValuesOfEntries(Tail(entries), keys)
Segments(record) ==
    LET value(k) == IF k \in DOMAIN record THEN record[k] ELSE NoneStr
        entries(k) == IF k \in DOMAIN record THEN record[k] ELSE <<>>
    IN <<value("name"), value("title"), value("company"), value("location"), value("about")>>
       \o ValuesOfEntries(entries("experience"), <<"title", "company", "dates">>)
       \o ValuesOfEntries(entries("education"), <<"school", "degree", "dates">>)
       \o <<value("raw_html")>>
IsPresent(v) == v # NoneStr /\ v # <<>>

\* C16: extract_text_content returns the present, non-empty values of name,
\* title, company, location, about, the experience entries, the education
\* entries and raw_html, in this order, joined by single spaces; a missing,
\* empty or None value adds neither an empty segment nor a placeholder.
C16_TextInOrder ==
    pc = "text_extracted" =>
        LET present == SelectSeq(Segments(raw_data), IsPresent)
        IN /\ text = Concat([i \in DOMAIN present |->
                                IF i = 1 THEN present[i] ELSE <<" ">> \o present[i]])
           /\ "None" \notin Range(text)
           /\ text # <<>> => text[1] # " " /\ text[Len(text)] # " "
           /\ \A i \in 1..(Len(text) - 1) : ~(text[i] = " " /\ text[i + 1] = " ")

\* a None name, an empty company, a None inside an experience entry and an
\* empty value inside an education entry all contribute nothing
C16_Witness ==
    /\ pc = "text_extracted"
    /\ {"name", "about", "experience", "education"} \subseteq DOMAIN raw_data
    /\ raw_data.name = NoneStr /\ raw_data.company = <<>>
    /\ raw_data.title = <<"d","e","v">>
    /\ Len(raw_data.experience) = 1 /\ raw_data.experience[1].company = NoneStr
    /\ Len(raw_data.education) = 1
    /\ raw_data.location = NoneStr /\ raw_data.about = NoneStr /\ raw_data.raw_html = <<>>
    /\ text = <<"d","e","v"," ","c","t","o"," ","2","0"," ","b","s","c">>

(***************************************************************************)
(* The validator applied to a candidate list and again to its own result   *)
(***************************************************************************)
MaxPhoneList == 2

PhoneCandidates == {
    <<"+","1","2","1","2","5","5","5","0","1","0","0">>,
    <<"+","1"," ","2","1","2","-","5","5","5","-","0","1","0","0">>,
    <<"2","1","2","5","5","5","0","1","0","0">>,
    <<"1","2","1","2","5","5","5","0","1","0","0">>,
    <<"+","1","2","3","4","5","6","7","8","9">>,
    <<"+","4","4","2","0","7","9","4","6","0","9","5","8">>,
    <<"1","2","3","4","5","6","7","8","9","0","1","2","3","4","5","6">>,
    <<>> }

MixedCaseEmails == {
    <<"A","@","B",".","c","o">>,
    <<"a",".",".","b","@","c",".","d","e">>,
    <<"a","@","b","@","c",".","d","e">> }

InitRevalidate ==
    /\ \/ pc = "start" /\ candidates \in EmailCandidateLists
                                         \cup {<<e>> : e \in MixedCaseEmails}
       \/ pc = "start_phones" /\ candidates \in ListsUpTo(PhoneCandidates, MaxPhoneList)
    /\ has_email_validator \in BOOLEAN
    /\ has_phonenumbers \in BOOLEAN
    /\ validated = <<>> /\ revalidated = <<>>
    /\ ExtractIdle /\ StoreIdle /\ CallerIdle

ValidatePhones ==
    /\ pc = "start_phones"
    /\ validated' = validate_phones(candidates, has_phonenumbers)
    /\ pc' = "validated_phones"
    /\ UNCHANGED <<candidates, revalidated, libVars, raceVars, extractVars, storeVars, callerVars>>

RevalidateEmails ==
    /\ pc = "validated"
    /\ revalidated' = validate_emails(validated, has_email_validator)
    /\ pc' = "revalidated"
    /\ UNCHANGED <<candidates, validated, libVars, raceVars, extractVars, storeVars, callerVars>>

RevalidatePhones ==
    /\ pc = "validated_phones"
    /\ revalidated' = validate_phones(validated, has_phonenumbers)
    /\ pc' = "revalidated_phones"
    /\ UNCHANGED <<candidates, validated, libVars, raceVars, extractVars, storeVars, callerVars>>

NextRevalidate == ValidateEmails \/ ValidatePhones \/ RevalidateEmails \/ RevalidatePhones

SpecRevalidate == InitRevalidate /\ [][NextRevalidate]_vars

(***************************************************************************)
(* C12                                                                     *)
(***************************************************************************)
\* C12: validation is idempotent for emails and phones, with the libraries
\* and with the fallback checks: the second pass returns the list the first
\* pass returned, no string changed and none dropped.
C12_Idempotent ==
    pc \in {"revalidated", "revalidated_phones"} => revalidated = validated

\* the library renders '+12125550100' as '+1 212-555-0100' and drops
\* '2125550100' in the first pass, and returns the list unchanged in the second
C12_Witness ==
    /\ pc = "revalidated_phones" /\ has_phonenumbers
    /\ candidates = << <<"+","1","2","1","2","5","5","5","0","1","0","0">>,
                       <<"2","1","2","5","5","5","0","1","0","0">> >>
    /\ validated = << <<"+","1"," ","2","1","2","-","5","5","5","-","0","1","0","0">> >>
    /\ revalidated = validated

(***************************************************************************)
(* C9                                                                      *)
(***************************************************************************)
C9_Keeps(c) ==
    /\ CountOf(c, "@") = 1
    /\ LET i == IndexOf(c, "@")
           local == SubSeq(c, 1, i - 1)
           domain == SubSeq(c, i + 1, Len(c))
       IN local # <<>> /\ domain # <<>> /\ "." \in Range(domain) /\ Len(domain) > 2

\* C9: the fallback validator keeps a candidate iff it contains exactly one
\* '@' between a non-empty local part and a non-empty domain, and the domain
\* contains a '.' and is longer than 2; a candidate with two '@' is dropped.
C9_ExactlyOneAt ==
    (pc = "validated" /\ ~has_email_validator) => validated = SelectSeq(candidates, C9_Keeps)

(***************************************************************************)
(* C10                                                                     *)
(***************************************************************************)
DigitsOf(s) == SelectSeq(s, LAMBDA c : c \in Digits)
DigitsAndPlusOf(s) == SelectSeq(s, LAMBDA c : c \in Digits \cup {"+"})

\* C10 as stated: every match is reduced to its digits and kept iff it has at
\* least 10 digits, so every candidate is a digit string of length >= 10 and
\* two matches give one candidate exactly when their digit strings are equal.
C10_DigitsOnly ==
    pc = "extracted" =>
        /\ \A c \in phones : Range(c) \subseteq Digits /\ Len(c) >= 10
        /\ \A pm \in phone_matches(text) :
              (DigitsOf(pm[2]) \in phones) <=> (Len(DigitsOf(pm[2])) >= 10)

\* C10 amended: every match loses its whitespace, hyphens, dots and
\* parentheses but keeps a leading '+', and is a candidate iff what is left
\* (the '+' counted) has at least 10 characters; every candidate is an
\* optional '+' followed by digits only, and two matches give one candidate
\* exactly when these cleaned strings are equal.
C10_PlusKept ==
    pc = "extracted" =>
        /\ \A c \in phones :
              /\ Len(c) >= 10
              /\ c[1] \in Digits \cup {"+"}
              /\ \A i \in 2..Len(c) : c[i] \in Digits
        /\ \A pm \in phone_matches(text) :
              (DigitsAndPlusOf(pm[2]) \in phones) <=> (Len(DigitsAndPlusOf(pm[2])) >= 10)
        /\ \A c \in phones : \E pm \in phone_matches(text) : c = DigitsAndPlusOf(pm[2])

\* '(212) 555-0100' and '212-555-0100' collapse to '2125550100', and the
\* 9-digit '+123456789' is kept with its '+'.
C10_Witness ==
    /\ pc = "extracted"
    /\ text = PhoneFrags[1] \o PhoneFrags[2] \o PhoneFrags[4]
    /\ <<2, PhoneFrags[1]>> \in phone_matches(text)
    /\ <<3, PhoneFrags[2]>> \in phone_matches(text)
    /\ phones = { <<"2","1","2","5","5","5","0","1","0","0">>, PhoneFrags[4] }

====
